---- MODULE Spec2Model ----
(***************************************************************************)
(* Model of packages/app/src/app/overmind/factories.ts:                    *)
(*   createModals      - the modal registry (state.modals + open/close)    *)
(*   withOwnedSandbox  - the ownership / frozen-sandbox guard              *)
(*   withLoadApp       - the one-time application bootstrap guard          *)
(* JavaScript values are modelled as strings so that values of different   *)
(* JavaScript types can be compared with each other.                       *)
(***************************************************************************)
EXTENDS Integers, Sequences, FiniteSets, TLC

\* Bound on the number of open() calls (promises created) in one behaviour.
MaxOpens == 3

\* ---------------------------------------------------------------- values
Null == "null"
Undefined == "undefined"
\* A promise that has not been resolved.
Pending == "pending"
\* A key that is not present in an object.
NoField == "absent"
\* `let resolver` before the first open(): no resolve function stored.
NoResolver == 0

\* The JavaScript values that are falsy.
Falsy == {"undefined", "null", "false", "0", ""}

\* a || b with the default never taken.
JsOrNoDefault(a, b) == a

\* a || b
JsOr(a, b) == IF a \in Falsy THEN b ELSE a

\* Object.keys(modals)
Names == {"forkFrozenModal", "rename"}
\* Field names and field values of a modal's sub-state.
Fields == {"a", "b"}
FieldValues == {"1", "2"}
\* Objects: a field maps to its value, or to NoField when the key is absent.
Objects == [Fields -> FieldValues \cup {NoField}]
EmptyObject == [f \in Fields |-> NoField]
\* Payloads close() may be called with; Undefined is close(n) with no payload.
Payloads == {Undefined, "false", "fork"}
\* Payloads the rendered forkFrozenModal, or any other caller, may close it with.
FrozenPayloads == Payloads \cup {"unfreeze", "cancel", "dismiss"}
\* The registries createModals is called with: a configured truthy result,
\* a configured falsy result and no configured result; with and without an
\* initial sub-state.
Registries ==
  { [forkFrozenModal |-> [state |-> EmptyObject, result |-> "fork"],
     rename |-> [state |-> [a |-> "1", b |-> NoField], result |-> Undefined]],
    [forkFrozenModal |-> [state |-> EmptyObject, result |-> Undefined],
     rename |-> [state |-> [a |-> "1", b |-> NoField], result |-> "false"]] }

\* Bound on the number of invocations of withLoadApp-wrapped actions.
MaxCalls == 2

VARIABLES
  modals,      \* the argument of createModals: name -> [state, result]
  current,     \* state.modals.current
  modalState,  \* state.modals[name], without the derived isCurrent
  resolver,    \* createModal's `resolver`, per name: index into promises
  promises,    \* every promise open() returned: Pending or its value
  editor,      \* state.editor and the requiredPermission of withOwnedSandbox
  owned,       \* the invocation of a withOwnedSandbox-wrapped action
  app,         \* the root state withLoadApp reads and writes
  initCount,   \* how often the one-time initialisation (lines 29-31) ran
  calls        \* the invocations of withLoadApp-wrapped actions

modalVars == <<modals, current, modalState, resolver, promises>>

\* Replacing the target by the source instead of merging into it.
ObjectReplace(target, source) == source

\* Object.assign(target, source): own keys of source overwrite target's.
ObjectAssign(target, source) ==
  [f \in Fields |-> IF source[f] # NoField THEN source[f] ELSE target[f]]

\* Calling a promise's resolve function: only the first call settles it.
Resolve(ps, i, v) == IF ps[i] = Pending THEN [ps EXCEPT ![i] = v] ELSE ps

\* A derivation that only looks at whether some modal is open.
isCurrentAny(name) == current # Null

\* The derived state.modals[name].isCurrent.
isCurrent(name) == current = name

\* createModals(modals): the reduce over Object.keys(modals).
InitModals ==
  /\ modals \in Registries
  /\ current = Null
  /\ modalState = [n \in Names |-> modals[n].state]
  /\ resolver = [n \in Names |-> NoResolver]
  /\ promises = <<>>

\* An open that leaves an already active modal in place.
openKeepActive(name, newState) ==
  /\ Len(promises) < MaxOpens
  /\ current' = IF current = Null THEN name ELSE current
  /\ modalState' = [modalState EXCEPT ![name] = ObjectAssign(@, newState)]
  /\ promises' = Append(promises, Pending)
  /\ resolver' = [resolver EXCEPT ![name] = Len(promises) + 1]
  /\ UNCHANGED modals

\* An open that settles the suspension it supersedes.
openSettlePrevious(name, newState) ==
  /\ Len(promises) < MaxOpens
  /\ current' = name
  /\ modalState' = [modalState EXCEPT ![name] = ObjectAssign(@, newState)]
  /\ promises' = Append(IF resolver[name] # NoResolver
                        THEN Resolve(promises, resolver[name], Undefined)
                        ELSE promises, Pending)
  /\ resolver' = [resolver EXCEPT ![name] = Len(promises) + 1]
  /\ UNCHANGED modals

\* An open whose closure holds the last registered name instead of its own.
openSharedName(name, newState) ==
  /\ Len(promises) < MaxOpens
  /\ current' = "rename"
  /\ modalState' = [modalState EXCEPT ![name] = ObjectAssign(@, newState)]
  /\ promises' = Append(promises, Pending)
  /\ resolver' = [resolver EXCEPT ![name] = Len(promises) + 1]
  /\ UNCHANGED modals

\* open(name)(context, newState = {}); EmptyObject is also the omitted argument.
open(name, newState) ==
  /\ Len(promises) < MaxOpens
  /\ current' = name
  /\ modalState' = [modalState EXCEPT ![name] = ObjectAssign(@, newState)]
  /\ promises' = Append(promises, Pending)
  /\ resolver' = [resolver EXCEPT ![name] = Len(promises) + 1]
  /\ UNCHANGED modals

\* A close that clears current only when its own modal is the active one.
closeIfActive(name, payload) ==
  /\ current' = IF current = name THEN Null ELSE current
  /\ promises' = IF resolver[name] # NoResolver
                 THEN Resolve(promises, resolver[name],
                              JsOr(payload, modals[name].result))
                 ELSE promises
  /\ UNCHANGED <<modals, modalState, resolver>>

\* close(name)(context, payload)
close(name, payload) ==
  /\ current' = Null
  /\ promises' = IF resolver[name] # NoResolver
                 THEN Resolve(promises, resolver[name],
                              JsOr(payload, modals[name].result))
                 ELSE promises
  /\ UNCHANGED <<modals, modalState, resolver>>

\* ------------------------------------------------------ withOwnedSandbox
\* No invocation of a withOwnedSandbox-wrapped action is running.
OwnedIdle ==
  [pc |-> "idle", awaited |-> NoResolver, modalResponse |-> Pending,
   forked |-> FALSE, outcome |-> "none"]

\* state.editor as an invocation finds it. permitted is the result of
\* hasPermission(sandbox.authorization, requiredPermission).
Editors ==
  [hasSandbox : BOOLEAN, owned : BOOLEAN, permitted : BOOLEAN,
   isFrozen : BOOLEAN, sessionFrozen : BOOLEAN, isForkingSandbox : BOOLEAN,
   requiredPermission : {Undefined, "write_code"}]

\* The ownership / permission test of lines 131-135: TRUE when it fails.
NotAllowed ==
  IF editor.requiredPermission = Undefined
  THEN ~editor.owned
  ELSE ~editor.permitted

\* return continueAction(context, payload)
ContinueAction(o) == [o EXCEPT !.pc = "done", !.outcome = "continue"]
\* return cancelAction(context, payload)
CancelAction(o) == [o EXCEPT !.pc = "done", !.outcome = "cancel"]

\* The branch of lines 150-162 on the value the modal's suspension resolved to.
ModalBranch(o, response) ==
  IF response = "fork" THEN [o EXCEPT !.pc = "forkFrozen"]
  ELSE IF response = "cancel" THEN CancelAction(o)
  ELSE ContinueAction(o)

\* The handler up to its first await (lines 126-148).
OwnedStart ==
  /\ owned.pc = "idle"
  /\ IF ~editor.hasSandbox
     THEN /\ owned' = ContinueAction(owned)
          /\ UNCHANGED modalVars
     ELSE IF NotAllowed
     THEN /\ owned' = IF editor.isForkingSandbox
                      THEN CancelAction(owned)
                      ELSE [owned EXCEPT !.pc = "forkUnowned"]
          /\ UNCHANGED modalVars
     ELSE IF editor.isFrozen /\ editor.sessionFrozen
     THEN /\ open("forkFrozenModal", EmptyObject)
          /\ owned' = [owned EXCEPT !.pc = "awaitModal",
                                    !.awaited = Len(promises) + 1]
     ELSE /\ owned' = ContinueAction(owned)
          /\ UNCHANGED modalVars
  /\ UNCHANGED <<editor, app, initCount, calls>>

\* await forkSandbox of lines 140-146 returns or throws.
OwnedForkUnowned ==
  /\ owned.pc = "forkUnowned"
  /\ \E ok \in BOOLEAN :
       owned' = IF ok
                THEN ContinueAction([owned EXCEPT !.forked = TRUE])
                ELSE CancelAction(owned)
  /\ UNCHANGED <<modalVars, editor, app, initCount, calls>>

\* The suspension of forkFrozenModal.open() resolves (lines 148-162).
OwnedModalResponse ==
  /\ owned.pc = "awaitModal"
  /\ promises[owned.awaited] # Pending
  /\ LET response == promises[owned.awaited] IN
       /\ owned' = ModalBranch([owned EXCEPT !.modalResponse = response],
                               response)
       /\ editor' = IF response = "unfreeze"
                    THEN [editor EXCEPT !.sessionFrozen = FALSE]
                    ELSE editor
  /\ UNCHANGED <<modalVars, app, initCount, calls>>

\* await forkSandbox of lines 151-157 returns or throws.
OwnedForkFrozen ==
  /\ owned.pc = "forkFrozen"
  /\ \E ok \in BOOLEAN :
       owned' = IF ok
                THEN ContinueAction([owned EXCEPT !.forked = TRUE])
                ELSE CancelAction(owned)
  /\ UNCHANGED <<modalVars, editor, app, initCount, calls>>

\* ----------------------------------------------------------- withLoadApp
Calls == 1 .. MaxCalls

\* The root state before any wrapped action ran.
Apps ==
  [hasLoadedApp : {FALSE}, isAuthenticating : BOOLEAN, hasLogIn : BOOLEAN,
   jwt : BOOLEAN, user : {Null}, signInError : {FALSE},
   contributors : {FALSE}]

\* Lines 104-105.
Loaded(a) == [a EXCEPT !.hasLoadedApp = TRUE, !.isAuthenticating = FALSE]

\* Lines 33-63: the legacy localStorage.jwt sign-out.
RevokeJwt(a) == IF a.jwt THEN [a EXCEPT !.hasLogIn = FALSE, !.jwt = FALSE] ELSE a

\* Lines 100-105 up to the next await: call p goes on from root state a.
AfterLogin(p, a) ==
  IF calls[p].cont
  THEN /\ app' = a
       /\ calls' = [calls EXCEPT ![p].pc = "continueAction"]
  ELSE /\ app' = Loaded(a)
       /\ calls' = [calls EXCEPT ![p].pc = "contributors"]

\* A wrapped action is invoked: the handler up to its first await
\* (lines 16-67, or through line 108 when nothing is awaited before).
LoadStart(p) ==
  /\ calls[p].pc = "idle"
  /\ \E cont \in BOOLEAN :
       IF app.hasLoadedApp
       THEN /\ calls' = [calls EXCEPT ![p] =
                           [pc |-> IF cont THEN "continueOnly" ELSE "done",
                            cont |-> cont]]
            /\ UNCHANGED <<app, initCount>>
       ELSE LET a == RevokeJwt([app EXCEPT !.isAuthenticating = TRUE]) IN
            /\ initCount' = initCount + 1
            /\ IF a.hasLogIn
               THEN /\ app' = a
                    /\ calls' = [calls EXCEPT ![p] =
                                   [pc |-> "getCurrentUser", cont |-> cont]]
               ELSE IF cont
               THEN /\ app' = a
                    /\ calls' = [calls EXCEPT ![p] =
                                   [pc |-> "continueAction", cont |-> cont]]
               ELSE /\ app' = Loaded(a)
                    /\ calls' = [calls EXCEPT ![p] =
                                   [pc |-> "contributors", cont |-> cont]]
  /\ UNCHANGED <<modalVars, editor, owned>>

\* await continueAction of line 20 returns or throws.
LoadContinueOnly(p) ==
  /\ calls[p].pc = "continueOnly"
  /\ \E ok \in BOOLEAN :
       calls' = [calls EXCEPT ![p].pc = IF ok THEN "done" ELSE "rejected"]
  /\ UNCHANGED <<modalVars, editor, owned, app, initCount>>

\* getCurrentUser of lines 67-71 resolves or rejects (lines 89-94).
LoadCurrentUser(p) ==
  /\ calls[p].pc = "getCurrentUser"
  /\ \E ok \in BOOLEAN :
       IF ok
       THEN /\ app' = [app EXCEPT !.user = "user"]
            /\ calls' = [calls EXCEPT ![p].pc = "getSocket"]
       ELSE AfterLogin(p, [app EXCEPT !.signInError = TRUE])
  /\ UNCHANGED <<modalVars, editor, owned, initCount>>

\* getSocket of line 85 resolves (lines 86-88) or rejects (lines 89-94).
LoadSocket(p) ==
  /\ calls[p].pc = "getSocket"
  /\ \E ok \in BOOLEAN :
       AfterLogin(p, IF ok
                     THEN [app EXCEPT !.hasLogIn = TRUE]
                     ELSE [app EXCEPT !.signInError = TRUE])
  /\ UNCHANGED <<modalVars, editor, owned, initCount>>

\* await continueAction of line 101 returns (lines 104-108) or throws.
LoadContinue(p) ==
  /\ calls[p].pc = "continueAction"
  /\ \E ok \in BOOLEAN :
       IF ok
       THEN /\ app' = Loaded(app)
            /\ calls' = [calls EXCEPT ![p].pc = "contributors"]
       ELSE /\ calls' = [calls EXCEPT ![p].pc = "rejected"]
            /\ UNCHANGED app
  /\ UNCHANGED <<modalVars, editor, owned, initCount>>

\* http.get of lines 107-119 resolves or rejects.
LoadContributors(p) ==
  /\ calls[p].pc = "contributors"
  /\ \E ok \in BOOLEAN :
       app' = IF ok THEN [app EXCEPT !.contributors = TRUE] ELSE app
  /\ calls' = [calls EXCEPT ![p].pc = "done"]
  /\ UNCHANGED <<modalVars, editor, owned, initCount>>

\* ------------------------------------------------------- specifications
vars ==
  <<modals, current, modalState, resolver, promises, editor, owned, app,
    initCount, calls>>

\* The parts of the state a specification does not exercise.
NoEditor ==
  [hasSandbox |-> FALSE, owned |-> FALSE, permitted |-> FALSE,
   isFrozen |-> FALSE, sessionFrozen |-> FALSE, isForkingSandbox |-> FALSE,
   requiredPermission |-> Undefined]
NoApp ==
  [hasLoadedApp |-> FALSE, isAuthenticating |-> FALSE, hasLogIn |-> FALSE,
   jwt |-> FALSE, user |-> Null, signInError |-> FALSE,
   contributors |-> FALSE]
InitOwnedUnused == editor = NoEditor /\ owned = OwnedIdle
InitLoadUnused ==
  /\ app = NoApp
  /\ initCount = 0
  /\ calls = [p \in Calls |-> [pc |-> "idle", cont |-> FALSE]]

\* The modal registry under every open and close.
Open ==
  /\ \E n \in Names, s \in Objects : open(n, s)
  /\ UNCHANGED <<editor, owned, app, initCount, calls>>
Close ==
  /\ \E n \in Names, p \in Payloads : close(n, p)
  /\ UNCHANGED <<editor, owned, app, initCount, calls>>
Init == InitModals /\ InitOwnedUnused /\ InitLoadUnused
Next == Open \/ Close
Spec == Init /\ [][Next]_vars

\* One withOwnedSandbox-wrapped action, with forkFrozenModal closed by the
\* rendered modal and opened by other workflows.
OpenPlain ==
  /\ open("forkFrozenModal", EmptyObject)
  /\ UNCHANGED <<editor, owned, app, initCount, calls>>
CloseFrozen ==
  /\ \E p \in FrozenPayloads : close("forkFrozenModal", p)
  /\ UNCHANGED <<editor, owned, app, initCount, calls>>
InitOwned ==
  /\ InitModals
  /\ editor \in Editors
  /\ owned = OwnedIdle
  /\ InitLoadUnused
NextOwned ==
  \/ OwnedStart
  \/ OwnedForkUnowned
  \/ OwnedModalResponse
  \/ OwnedForkFrozen
  \/ OpenPlain
  \/ CloseFrozen
SpecOwned == InitOwned /\ [][NextOwned]_vars

\* Invocations of withLoadApp-wrapped actions interleaving at their awaits.
InitLoad ==
  /\ InitModals
  /\ InitOwnedUnused
  /\ app \in Apps
  /\ initCount = 0
  /\ calls = [p \in Calls |-> [pc |-> "idle", cont |-> FALSE]]
NextLoad ==
  \E p \in Calls :
    \/ LoadStart(p)
    \/ LoadContinueOnly(p)
    \/ LoadCurrentUser(p)
    \/ LoadSocket(p)
    \/ LoadContinue(p)
    \/ LoadContributors(p)
SpecLoad == InitLoad /\ [][NextLoad]_vars

\* ----------------------------------------------------------- properties
\* The suspension open(n) stored last for n is still unresolved.
PendingFor(n) == resolver[n] # NoResolver /\ promises[resolver[n]] = Pending

\* Suspension i is unresolved and no modal's resolver can resolve it.
Orphaned(i) == promises[i] = Pending /\ \A n \in Names : resolver[n] # i

\* C1: immediately after open(n), from any reachable state, current is n,
\* isCurrent of n is true and isCurrent of every other modal is false.
OpenMakesCurrent ==
  [][\A n \in Names, s \in Objects :
       open(n, s) =>
         /\ current' = n
         /\ isCurrent(n)'
         /\ \A m \in Names \ {n} : ~isCurrent(m)']_vars
\* open(rename) ran while forkFrozenModal's suspension was outstanding.
WitOpenMakesCurrent ==
  /\ current = "rename"
  /\ isCurrent("rename")
  /\ PendingFor("forkFrozenModal")
  /\ PendingFor("rename")

\* C2: close(n, payload) after open(n) resolves the suspension of that
\* open to exactly payload, for every payload, falsy ones included.
CloseResolvesPayload ==
  [][\A n \in Names, p \in Payloads \ {Undefined} :
       (PendingFor(n) /\ close(n, p)) => promises'[resolver[n]] = p]_vars

\* C3: close(n) with no payload after open(n) resolves the suspension of
\* that open to the modal's configured result, or to undefined when the
\* modal has none.
CloseResolvesDefault ==
  [][\A n \in Names :
       (PendingFor(n) /\ close(n, Undefined)) =>
         promises'[resolver[n]] = modals[n].result]_vars
\* Both modals were opened and closed to their default: rename to its
\* configured "false", forkFrozenModal, which has none, to undefined.
WitCloseResolvesDefault ==
  /\ modals["rename"].result = "false"
  /\ resolver["rename"] # NoResolver
  /\ promises[resolver["rename"]] = "false"
  /\ modals["forkFrozenModal"].result = Undefined
  /\ resolver["forkFrozenModal"] # NoResolver
  /\ promises[resolver["forkFrozenModal"]] = Undefined

\* C4: close(n) can always run, and it sets current to null whichever
\* modal, if any, was active.
CloseClearsCurrent ==
  /\ [](\A n \in Names, p \in Payloads : ENABLED close(n, p))
  /\ [][\A n \in Names, p \in Payloads : close(n, p) => current' = Null]_vars
\* A modal that was never opened was closed while another one was active:
\* current is null although the only suspension is still outstanding.
WitCloseClearsCurrent ==
  /\ current = Null
  /\ \E m \in Names :
       /\ PendingFor(m)
       /\ \A n \in Names \ {m} : resolver[n] = NoResolver

\* C5: an open(n) while n's suspension is outstanding orphans that
\* suspension, an orphaned suspension stays unresolved and orphaned under
\* every later open and close, and a suspension that gets resolved is the
\* one some modal's resolver holds.
SupersededNeverResolved ==
  [][/\ \A n \in Names :
          \A s \in Objects, i \in {resolver[n]} :
            (PendingFor(n) /\ open(n, s)) => Orphaned(i)'
     /\ \A i \in 1 .. Len(promises) :
          Orphaned(i) => (promises'[i] = Pending /\ Orphaned(i)')
     /\ \A i \in 1 .. Len(promises) :
          (promises[i] = Pending /\ promises'[i] # Pending) =>
            \E n \in Names : resolver[n] = i]_vars
\* One modal was opened twice and then closed: the first suspension is
\* orphaned, the second is resolved.
WitSupersededNeverResolved ==
  /\ Len(promises) = 2
  /\ Orphaned(1)
  /\ promises[2] # Pending
  /\ \E n \in Names :
       resolver[n] = 2 /\ \A m \in Names \ {n} : resolver[m] = NoResolver

\* C6: current is null or a registered name, isCurrent of a modal is true
\* exactly when current is its name, and at most one modal is current.
CurrentRegistered ==
  /\ current \in Names \cup {Null}
  /\ \A n \in Names : isCurrent(n) <=> current = n
  /\ Cardinality({n \in Names : isCurrent(n)}) <= 1
\* A modal is active after another one was opened and closed.
WitCurrentRegistered ==
  /\ current = "forkFrozenModal"
  /\ resolver["rename"] # NoResolver
  /\ promises[resolver["rename"]] # Pending

\* C7: open(n, newFields) changes the fields of n's sub-state that
\* newFields names and keeps the others, leaves every other modal's
\* sub-state alone, and close changes no sub-state.
SubStatePersists ==
  [][/\ \A n \in Names, s \in Objects :
          open(n, s) =>
            /\ \A f \in Fields :
                 modalState'[n][f] =
                   IF s[f] # NoField THEN s[f] ELSE modalState[n][f]
            /\ \A m \in Names \ {n} : modalState'[m] = modalState[m]
     /\ \A n \in Names, p \in Payloads :
          close(n, p) => modalState' = modalState]_vars
\* forkFrozenModal, constructed without fields, holds a and b after it was
\* closed, and rename still holds what it was constructed with.
WitSubStatePersists ==
  /\ modalState["forkFrozenModal"] = [a |-> "1", b |-> "2"]
  /\ modalState["rename"] = modals["rename"].state
  /\ resolver["forkFrozenModal"] # NoResolver
  /\ promises[resolver["forkFrozenModal"]] # Pending
  /\ current = Null

\* C8: current only changes from null to a registered name or from a
\* registered name to null, never from one name to a different name.
CurrentNeverSwitches ==
  [][current' # current =>
       \/ current = Null /\ current' \in Names
       \/ current \in Names /\ current' = Null]_vars
\* C8 as amended: current only changes to a registered name, by an open of
\* that name (from null or from a different name), or from a registered
\* name to null, by a close.
CurrentChangesByOpenOrClose ==
  [][current' # current =>
       \/ /\ current' \in Names
          /\ promises' = Append(promises, Pending)
          /\ resolver' = [resolver EXCEPT ![current'] = Len(promises')]
       \/ /\ current \in Names
          /\ current' = Null
          /\ resolver' = resolver
          /\ Len(promises') = Len(promises)]_vars
\* rename is active and both modals' only suspensions are outstanding.
WitCurrentChangesByOpenOrClose ==
  /\ current = "rename"
  /\ promises = <<Pending, Pending>>
  /\ resolver = [forkFrozenModal |-> 1, rename |-> 2]

\* C9: on the frozen branch of withOwnedSandbox, continueAction is only
\* invoked after forkSandbox succeeded or sessionFrozen was set to false.
FrozenContinueOnlyAfterForkOrUnfreeze ==
  (owned.outcome = "continue" /\ owned.awaited # NoResolver) =>
    (owned.forked \/ ~editor.sessionFrozen)

\* C10: the one-time initialisation runs at most once, however the
\* invocations of withLoadApp-wrapped actions interleave.
InitialisedAtMostOnce == initCount <= 1
====
